---------------------------- MODULE Spec2Model ----------------------------
(***************************************************************************)
(* Model of the two scripts of the repository:                             *)
(*   task-1/solve_task_1_fast.py  birth-fact extraction with a yargy       *)
(*                                grammar behind a keyword pre-filter      *)
(*   task-2/semantic_grep.py      Word2Vec query expansion and line search *)
(*                                                                         *)
(* Text is modelled at token level.  A word is a string (a Latin           *)
(* transliteration of the Russian word); a text is a sequence of words; a  *)
(* corpus line is a sequence of tab-separated columns, each a text.  The   *)
(* morphological analyzer, the tokenizer and the embedding trainer are     *)
(* library code: they are modelled as lookup tables over the words used    *)
(* here, or as a nondeterministic choice where their answer is opaque.     *)
(***************************************************************************)
EXTENDS Integers, Sequences, FiniteSets, TLC

VARIABLES
    prog,        \* which script runs: "task1", "task2" or "date"
    \* ---- task-1: extract_birth_info_fast
    pc,          \* "start" | "scan" | "done"
    lineNo,      \* number of lines read from the file so far
    entries,     \* the result list
    count,       \* candidate lines parsed
    skipped,     \* lines dropped by the pre-filter
    last,        \* what happened to the line read last
    outcome,     \* how the operation ended
    \* ---- task-2: SemanticGrep
    corpus,      \* the lines of the file at data_path
    model,       \* self.model: None or the trained vocabulary
    sentences,   \* self.sentences
    res,         \* what the last call did
    \* ---- DATE sub-grammar
    dateTokens,  \* the token sequence offered to DATE
    dateResult   \* "none" before parsing, then "match" | "nomatch"

vars == <<prog, pc, lineNo, entries, count, skipped, last, outcome,
          corpus, model, sentences, res, dateTokens, dateResult>>

task1Vars == <<pc, lineNo, entries, count, skipped, last, outcome>>
task2Vars == <<corpus, model, sentences, res>>
dateVars == <<dateTokens, dateResult>>

-----------------------------------------------------------------------------
(* Bounds of the model *)

MaxLines == 2        \* lines an extractor scan reads
MaxCols == 4         \* tab-separated columns of a corpus line
MaxChunks == 6       \* phrases of a sentence offered to the grammar
MaxDateLen == 4      \* tokens of a sequence offered to DATE
MaxCorpus == 12      \* lines of the search tool's corpus

-----------------------------------------------------------------------------
(* Words and the library lookups on them *)

None == <<>>         \* Python None for an optional text span (a span is never empty)

\* tokens of type INT and int(token.value)
IntValue ==
    ("0" :> 0) @@ ("1" :> 1) @@ ("5" :> 5) @@ ("31" :> 31) @@ ("32" :> 32) @@
    ("999" :> 999) @@ ("1000" :> 1000) @@ ("1980" :> 1980) @@
    ("2100" :> 2100) @@ ("2101" :> 2101)

IsInt(w) == w \in DOMAIN IntValue

\* str.lower() on a word
Lower(w) ==
    CASE w = "Ivan" -> "ivan"
      [] w = "Vladimir" -> "vladimir"
      [] w = "Moskve" -> "moskve"
      [] w = "Urozhenec" -> "urozhenec"
      [] OTHER -> w

\* the lowercase words that contain a keyword stem as a substring
Containing(kw) ==
    CASE kw = "rodil" -> {"rodilsja", "rodilas", "rodilis"}
      [] kw = "urozhen" -> {"urozhenec", "urozhenka"}
      [] OTHER -> {}

\* pymorphy2: normal form of a word (morph.parse(w)[0].normal_form)
NormalForm(w) ==
    CASE Lower(w) \in {"rodilsja", "rodilas", "rodilis", "roditsja"} -> "rodit_sja"
      [] Lower(w) = "urozhenec" -> "urozhenec"
      [] Lower(w) = "urozhenka" -> "urozhenka"
      [] Lower(w) = "marta" -> "mart"
      [] Lower(w) = "goda" -> "god"
      [] Lower(w) = "moskve" -> "moskva"
      [] Lower(w) = "futbolu" -> "futbol"
      [] Lower(w) = "deneg" -> "dengi"
      [] Lower(w) = "golov" -> "gol"
      [] Lower(w) = "rublej" -> "rubl"
      [] OTHER -> Lower(w)

\* pymorphy2: grammemes of a word
Grams(w) ==
    CASE w \in {"Ivan", "ivan"} -> {"Name"}
      [] w = "Vladimir" -> {"Name", "Geox"}
      [] w = "Moskve" -> {"Geox"}
      [] OTHER -> {}

\* yargy is_capitalized()
IsCapitalized(w) == w \in {"Ivan", "Vladimir", "Moskve", "Urozhenec"}


-----------------------------------------------------------------------------
(* task-1: the grammar (token predicates, then rules over a span i..j of t) *)

\* and_(gram('Name'), is_capitalized()): one token of NAME
NameToken(w) == "Name" \in Grams(w) /\ IsCapitalized(w)

\* NAME: one or more consecutive name tokens
NAME(t, i, j) == i <= j /\ \A k \in i..j : NameToken(t[k])

MONTH_NAME(w) ==
    NormalForm(w) \in {"janvar", "fevral", "mart", "aprel", "maj", "ijun",
                       "ijul", "avgust", "sentjabr", "oktjabr", "nojabr", "dekabr"}

DAY_UpTo32(w) == IsInt(w) /\ IntValue[w] >= 1 /\ IntValue[w] <= 32

DAY(w) == IsInt(w) /\ IntValue[w] >= 1 /\ IntValue[w] <= 31

YEAR(w) == IsInt(w) /\ IntValue[w] >= 1000 /\ IntValue[w] <= 2100

\* morph_pipeline(['god', 'g.']): the year word, one item of the sequence
YEAR_WORD(w) == NormalForm(w) \in {NormalForm("god"), NormalForm("g.")}

\* the four alternatives of DATE, in the order of the or_
DATE_1(t, i, j) ==
    /\ j - i + 1 \in {3, 4}
    /\ DAY(t[i]) /\ MONTH_NAME(t[i + 1]) /\ YEAR(t[i + 2])
    /\ (j - i + 1 = 4 => YEAR_WORD(t[i + 3]))

DATE_2(t, i, j) ==
    j - i + 1 = 3 /\ DAY(t[i]) /\ MONTH_NAME(t[i + 1]) /\ YEAR(t[i + 2])

DATE_3(t, i, j) == j - i + 1 = 2 /\ DAY(t[i]) /\ MONTH_NAME(t[i + 1])

DATE_4(t, i, j) == j - i + 1 = 2 /\ YEAR(t[i]) /\ YEAR_WORD(t[i + 1])

DATE(t, i, j) ==
    /\ 1 <= i /\ i <= j /\ j <= Len(t)
    /\ (DATE_1(t, i, j) \/ DATE_2(t, i, j) \/ DATE_3(t, i, j) \/ DATE_4(t, i, j))

\* and_(gram('Geox'), is_capitalized()): the one token of PLACE
PLACE(w) == "Geox" \in Grams(w) /\ IsCapitalized(w)

IN_(w) == NormalForm(w) \in {NormalForm(p) : p \in {"v", "vo", "iz"}}

BIRTH_VERB(w) ==
    NormalForm(w) \in {NormalForm(p) :
        p \in {"rodilsja", "rodilas", "rodilis", "urozhenec", "urozhenka"}}

\* a match of BIRTH_RULE: its span, the pattern that produced it and the
\* interpreted BirthFact slots
Match(t, i, j, p, name, date, place) ==
    [start |-> i, stop |-> j, pattern |-> p,
     name |-> name, birth_date |-> date, birth_place |-> place]

Spans(t) == {s \in (1..Len(t)) \X (1..Len(t)) : s[1] <= s[2]}

\* rule(NAME, BIRTH_VERB, DATE, IN, PLACE): name i..k, verb k+1, date k+2..d
PATTERN_1(t) ==
    {Match(t, x[1], x[3] + 2, "A", SubSeq(t, x[1], x[2]),
           SubSeq(t, x[2] + 2, x[3]), <<t[x[3] + 2]>>) :
        x \in {y \in (1..Len(t)) \X (1..Len(t)) \X (1..Len(t)) :
                 /\ y[1] <= y[2] /\ y[2] + 2 <= y[3] /\ y[3] + 2 <= Len(t)
                 /\ NAME(t, y[1], y[2])
                 /\ BIRTH_VERB(t[y[2] + 1])
                 /\ DATE(t, y[2] + 2, y[3])
                 /\ IN_(t[y[3] + 1])
                 /\ PLACE(t[y[3] + 2])}}

\* PATTERN_2 written with an optional DATE: overlaps PATTERN_1
PATTERN_2_OptionalDate(t) ==
    {Match(t, x[1], x[3] + 2, "B", SubSeq(t, x[1], x[2]), None, <<t[x[3] + 2]>>) :
        x \in {y \in (1..Len(t)) \X (1..Len(t)) \X (1..Len(t)) :
                 /\ y[1] <= y[2] /\ y[2] + 1 <= y[3] /\ y[3] + 2 <= Len(t)
                 /\ NAME(t, y[1], y[2])
                 /\ BIRTH_VERB(t[y[2] + 1])
                 /\ (y[3] = y[2] + 1 \/ DATE(t, y[2] + 2, y[3]))
                 /\ IN_(t[y[3] + 1])
                 /\ PLACE(t[y[3] + 2])}}

\* rule(NAME, BIRTH_VERB, IN, PLACE): name i..k, verb k+1, IN k+2, place k+3
PATTERN_2(t) ==
    {Match(t, x[1], x[2] + 3, "B", SubSeq(t, x[1], x[2]), None, <<t[x[2] + 3]>>) :
        x \in {y \in Spans(t) :
                 /\ y[2] + 3 <= Len(t)
                 /\ NAME(t, y[1], y[2])
                 /\ BIRTH_VERB(t[y[2] + 1])
                 /\ IN_(t[y[2] + 2])
                 /\ PLACE(t[y[2] + 3])}}

\* PATTERN_3 written without its NAME: the fact has no name
PATTERN_3_NoName(t) ==
    {Match(t, i, i + 1, "C", None, None, <<t[i + 1]>>) :
        i \in {k \in 1..Len(t) :
                 k + 1 <= Len(t) /\ BIRTH_VERB(t[k]) /\ PLACE(t[k + 1])}}

\* rule(BIRTH_VERB, PLACE, NAME): verb i, place i+1, name i+2..j
PATTERN_3(t) ==
    {Match(t, x[1], x[2], "C", SubSeq(t, x[1] + 2, x[2]), None, <<t[x[1] + 1]>>) :
        x \in {y \in Spans(t) :
                 /\ y[1] + 2 <= y[2]
                 /\ BIRTH_VERB(t[y[1]])
                 /\ PLACE(t[y[1] + 1])
                 /\ NAME(t, y[1] + 2, y[2])}}

BIRTH_RULE(t) == PATTERN_1(t) \cup PATTERN_2(t) \cup PATTERN_3(t)

Overlap(a, b) == a.start <= b.stop /\ b.start <= a.stop

Size(m) == m.stop - m.start + 1

\* yargy keeps matches that do not overlap, longest first; which of two
\* matches of the same length wins is not fixed here
RECURSIVE Resolve(_)
Resolve(M) ==
    IF M = {} THEN {{}}
    ELSE LET longest == {m \in M : \A x \in M : Size(x) <= Size(m)}
         IN  UNION {{{m} \cup r : r \in Resolve({x \in M : ~Overlap(x, m)})} :
                      m \in longest}

\* parser.findall(text): the sets of matches it may return
findall(t) == Resolve(BIRTH_RULE(t))

\* the matches in text order
RECURSIVE InOrder(_)
InOrder(R) ==
    IF R = {} THEN <<>>
    ELSE LET m == CHOOSE x \in R :
                    \A y \in R : <<x.start, x.stop, x.pattern>> = <<y.start, y.stop, y.pattern>>
                                 \/ x.start < y.start
                                 \/ (x.start = y.start /\ x.stop < y.stop)
                                 \/ (x.start = y.start /\ x.stop = y.stop
                                     /\ x.pattern /= y.pattern /\ x.pattern = "A")
                                 \/ (x.start = y.start /\ x.stop = y.stop
                                     /\ x.pattern = "B" /\ y.pattern = "C")
         IN  <<m>> \o InOrder(R \ {m})

\* Entry(name=fact.name, birth_date=..., birth_place=...)
Entry(m) == [name |-> m.name, birth_date |-> m.birth_date,
             birth_place |-> m.birth_place]

EntriesOf(ms) == [k \in DOMAIN ms |-> Entry(ms[k])]

-----------------------------------------------------------------------------
(* Corpus lines: a line is a sequence of tab-separated columns *)

RECURSIVE Flatten(_)
\* the words of a whole line (a tab separates words like a space does)
Flatten(cols) == IF cols = <<>> THEN <<>> ELSE Head(cols) \o Flatten(Tail(cols))

RECURSIVE LStrip(_)
LStrip(cols) ==
    IF cols /= <<>> /\ Head(cols) = <<>> THEN LStrip(Tail(cols)) ELSE cols

RECURSIVE RStrip(_)
RStrip(cols) ==
    IF cols /= <<>> /\ cols[Len(cols)] = <<>>
    THEN RStrip(SubSeq(cols, 1, Len(cols) - 1)) ELSE cols

\* str.strip(): leading and trailing tabs go, so leading and trailing empty
\* columns go; the empty string is <<>>
Strip(cols) == RStrip(LStrip(cols))

\* str.split('\t'): the empty string splits into one empty part
Split(cols) == IF cols = <<>> THEN << <<>> >> ELSE cols

LowerText(text) == [k \in DOMAIN text |-> Lower(text[k])]

\* kw in text_lower
Contains(text, kw) == \E k \in DOMAIN text : text[k] \in Containing(kw)

KEYWORDS == {"rodil", "urozhen"}

\* task-1 lines 98-102, on the stripped line
SelectTextFast(line) ==
    LET parts == Split(line)
    IN  IF Len(parts) >= 3 THEN parts[Len(parts)] ELSE Flatten(line)

\* the pre-filter applied to the text as written, not lowercased
PreFilter_NoLower(text) == \E kw \in KEYWORDS : Contains(text, kw)

\* the pre-filter that lets every line through
PreFilter_Off(text) == TRUE

\* task-1 lines 106-107: any(kw in text_lower for kw in KEYWORDS)
PreFilter(text) == \E kw \in KEYWORDS : Contains(LowerText(text), kw)

\* task-2 lines 88-92, on the line as read
SelectTextTrain(line) ==
    LET parts == Split(Strip(line))
    IN  IF Len(parts) >= 3 THEN parts[3] ELSE Flatten(line)

-----------------------------------------------------------------------------
(* The inputs *)

\* the texts a column of an extractor corpus line holds
ColTexts ==
    { <<>>,
      <<"rodilsja">>,
      <<"Ivan", "roditsja", "v", "Moskve">>,
      <<"Urozhenec", "Moskve", "Ivan">> }

Lines == UNION {[1..n -> ColTexts] : n \in 1..MaxCols}

\* the phrases sentences for the grammar are built from
Phrases ==
    { <<"Ivan">>, <<"Vladimir">>, <<"rodilsja">>, <<"v">>, <<"Moskve">>,
      <<"5", "marta">> }

RECURSIVE SentencesOf(_)
SentencesOf(n) ==
    IF n = 0 THEN {<<>>}
    ELSE LET S == SentencesOf(n - 1)
         IN  S \cup {s \o p : s \in S, p \in Phrases}

Sentences == SentencesOf(MaxChunks)

-----------------------------------------------------------------------------
(* task-1: extract_birth_info_fast, one action per step of the scan *)

\* whether some column of the line, lowercased, contains a keyword stem
StemInLine(raw) == \E kw \in KEYWORDS : Contains(LowerText(Flatten(raw)), kw)

\* the record of the line read last: the text selected from it, whether the
\* line holds a stem anywhere, and what the loop body did with it
NoLine ==
    [text |-> <<>>, stemInLine |-> FALSE, handled |-> FALSE, empty |-> FALSE,
     parsed |-> FALSE, emitted |-> 0, matches |-> {}]

\* self.model = None
NoModel == [trained |-> FALSE, wv |-> {}]

\* no call made yet
NoRes ==
    [op |-> "none", query |-> <<>>, modelBefore |-> FALSE, phase |-> "none",
     outcome |-> "none", ioError |-> FALSE, warned |-> FALSE, value |-> {},
     terms |-> {}, reported |-> <<>>, read |-> 0]

Task2Idle ==
    /\ corpus = <<>> /\ model = NoModel /\ sentences = <<>> /\ res = NoRes

DateIdle == dateTokens = <<>> /\ dateResult = "none"

InitTask1 ==
    /\ prog = "task1"
    /\ pc = "start" /\ lineNo = 0 /\ entries = <<>> /\ count = 0 /\ skipped = 0
    /\ last = NoLine /\ outcome = "running"
    /\ Task2Idle /\ DateIdle

\* the handler that drops what was collected when an exception arrives
AfterException_Drop(es) == <<>>

\* lines 130-133: the handler prints and the function returns entries
AfterException(es) == es

\* line 88: the file opens
OpenFile ==
    /\ prog = "task1" /\ pc = "start"
    /\ pc' = "scan"
    /\ UNCHANGED <<prog, lineNo, entries, count, skipped, last, outcome>>
    /\ UNCHANGED <<task2Vars, dateVars>>

\* lines 128-129, 133: the file is missing
FileNotFound ==
    /\ prog = "task1" /\ pc = "start"
    /\ pc' = "done" /\ outcome' = "notfound"
    /\ UNCHANGED <<prog, lineNo, entries, count, skipped, last>>
    /\ UNCHANGED <<task2Vars, dateVars>>

\* lines 89-126: the body of the loop on one line read from the file
ProcessLine(raw) ==
    /\ prog = "task1" /\ pc = "scan" /\ lineNo < MaxLines
    /\ lineNo' = lineNo + 1
    /\ LET line == Strip(raw)
           text == SelectTextFast(line)
       IN  IF line = <<>>
           THEN /\ last' = [NoLine EXCEPT !.stemInLine = StemInLine(raw),
                                          !.handled = TRUE, !.empty = TRUE]
                /\ UNCHANGED <<entries, count, skipped>>
           ELSE IF ~PreFilter(text)
           THEN /\ skipped' = skipped + 1
                /\ last' = [NoLine EXCEPT !.stemInLine = StemInLine(raw),
                                          !.text = text, !.handled = TRUE]
                /\ UNCHANGED <<entries, count>>
           ELSE \E R \in findall(text) :
                /\ entries' = entries \o EntriesOf(InOrder(R))
                /\ count' = count + 1
                /\ last' = [text |-> text, stemInLine |-> StemInLine(raw),
                            handled |-> TRUE,
                            empty |-> FALSE, parsed |-> TRUE,
                            emitted |-> Cardinality(R), matches |-> R]
                /\ UNCHANGED skipped
    /\ UNCHANGED <<prog, pc, outcome>>
    /\ UNCHANGED <<task2Vars, dateVars>>

ScanLine == \E raw \in Lines : ProcessLine(raw)

\* the same step on a one-line file whose line is a sentence
ScanSentence == lineNo = 0 /\ \E s \in Sentences : ProcessLine(<<s>>)

\* lines 89, 130-133: reading the next line raises
ReadError ==
    /\ prog = "task1" /\ pc = "scan"
    /\ pc' = "done" /\ outcome' = "caught"
    /\ entries' = AfterException(entries)
    /\ last' = [last EXCEPT !.handled = FALSE]
    /\ UNCHANGED <<prog, lineNo, count, skipped>>
    /\ UNCHANGED <<task2Vars, dateVars>>

\* lines 112-119, 130-133: the parser raises on a line that passed the
\* pre-filter, after k of its matches were appended
ParseError ==
    /\ prog = "task1" /\ pc = "scan" /\ lineNo < MaxLines
    /\ \E raw \in Lines :
         LET line == Strip(raw)
             text == SelectTextFast(line)
         IN  /\ line /= <<>> /\ PreFilter(text)
             /\ \E R \in findall(text) : \E k \in 0..Cardinality(R) :
                  /\ k < Cardinality(R) \/ k = 0
                  /\ entries' = AfterException(
                         entries \o SubSeq(EntriesOf(InOrder(R)), 1, k))
                  /\ last' = [text |-> text, stemInLine |-> StemInLine(raw),
                              handled |-> FALSE,
                              empty |-> FALSE, parsed |-> TRUE,
                              emitted |-> k, matches |-> R]
    /\ lineNo' = lineNo + 1
    /\ pc' = "done" /\ outcome' = "caught"
    /\ UNCHANGED <<prog, count, skipped>>
    /\ UNCHANGED <<task2Vars, dateVars>>

\* lines 89, 133: the file ends
EndOfFile ==
    /\ prog = "task1" /\ pc = "scan"
    /\ pc' = "done" /\ outcome' = "returned"
    /\ UNCHANGED <<prog, lineNo, entries, count, skipped, last>>
    /\ UNCHANGED <<task2Vars, dateVars>>

NextTask1 ==
    OpenFile \/ FileNotFound \/ ScanLine \/ ReadError \/ ParseError \/ EndOfFile

SpecTask1 == InitTask1 /\ [][NextTask1]_vars

NextGrammar == OpenFile \/ ScanSentence \/ EndOfFile

SpecGrammar == InitTask1 /\ [][NextGrammar]_vars

-----------------------------------------------------------------------------
(* task-2: SemanticGrep *)

min_count == 5        \* Word2Vec(min_count=5)
topn_default == 3     \* get_synonyms(word, topn=3)
topn_grep == 4        \* grep: get_synonyms(query_word, topn=4)
display_cap == 10     \* grep: if match_count >= 10: break

\* len(token), of the Russian word
WordLen(w) ==
    CASE w = "v" -> 1
      [] w = "ok" -> 2
      [] w \in {"eti", "mjach"} -> 3
      [] w = "bank" -> 4
      [] w \in {"golov", "deneg"} -> 5
      [] w = "rublej" -> 6
      [] w = "futbolu" -> 7
      [] w = "ekonomika" -> 9
      [] OTHER -> 8

\* stopwords.words('russian') plus the words added by hand, among the words used
stop_words == {"v", "eti", "eto", "kotoryj", "svoj", "ves", "nash", "vash"}

KeepToken(w) == ~IsInt(w) /\ WordLen(w) >= 2 /\ WordLen(w) <= 15

\* gensim simple_preprocess: lowercase, alphabetic tokens of 2 to 15 letters
simple_preprocess(text) == SelectSeq(LowerText(text), KeepToken)

CleanToken(w) == w \notin stop_words /\ WordLen(w) > 2

\* preprocess_text: tokenize, drop stop words and short tokens, lemmatize
preprocess_text(text) ==
    LET clean == SelectSeq(simple_preprocess(text), CleanToken)
    IN  [k \in DOMAIN clean |-> NormalForm(clean[k])]

NonEmpty(tokens) == tokens /= <<>>

\* load_and_preprocess lines 87-97 over the lines read
LoadSentences(lines) ==
    SelectSeq([k \in DOMAIN lines |-> preprocess_text(SelectTextTrain(lines[k]))],
              NonEmpty)

Occurrences(w, sents) ==
    Cardinality({p \in UNION {{<<i, j>> : j \in DOMAIN sents[i]} : i \in DOMAIN sents} :
                   sents[p[1]][p[2]] = w})

\* the vocabulary Word2Vec builds: tokens seen at least min_count times
Vocabulary(sents) ==
    {w \in UNION {{sents[i][j] : j \in DOMAIN sents[i]} : i \in DOMAIN sents} :
       Occurrences(w, sents) >= min_count}

Min(a, b) == IF a <= b THEN a ELSE b

\* model.wv.most_similar(target, topn): topn other tokens of the vocabulary;
\* which ones is the embedding's business
most_similar(wv, target, topn) ==
    {S \in SUBSET (wv \ {target}) :
       Cardinality(S) = Min(topn, Cardinality(wv) - 1)}

\* train_model, lines 108-120: the ways it can end from (sentences, corpus).
\* Reading may raise after any number of lines; load_and_preprocess then
\* prints and calls sys.exit(1).  Word2Vec on a corpus with no frequent token
\* either raises or leaves an empty vocabulary.
TrainOutcomes(sents, lines) ==
    LET loaded == IF sents = <<>> THEN LoadSentences(lines) ELSE sents
        built == [outcome |-> "ok", ioError |-> FALSE, sentences |-> loaded,
                  model |-> [trained |-> TRUE, wv |-> Vocabulary(loaded)]]
    IN  {built}
        \cup (IF Vocabulary(loaded) = {}
              THEN {[outcome |-> "raised", ioError |-> FALSE,
                     sentences |-> loaded, model |-> NoModel]}
              ELSE {})
        \cup (IF sents = <<>>
              THEN {[outcome |-> "exit", ioError |-> TRUE,
                     sentences |-> LoadSentences(SubSeq(lines, 1, k)),
                     model |-> NoModel] : k \in 0..Len(lines)}
              ELSE {})

SynResult(o, v, w) == [outcome |-> o, value |-> v, warned |-> w]

\* get_synonyms that indexes processed[0] without the emptiness test
get_synonyms_NoEmptyTest(m, word, topn) ==
    LET processed == preprocess_text(word)
    IN  IF ~m.trained \/ processed = <<>> THEN {SynResult("raised", {}, FALSE)}
        ELSE IF processed[1] \notin m.wv THEN {SynResult("returned", {}, TRUE)}
        ELSE {SynResult("returned", S, FALSE) :
                S \in most_similar(m.wv, processed[1], topn)}

\* get_synonyms, lines 122-141: the ways it can end
get_synonyms(m, word, topn) ==
    LET processed == preprocess_text(word)
    IN  IF ~m.trained THEN {SynResult("raised", {}, FALSE)}
        ELSE IF processed = <<>> THEN {SynResult("returned", {}, TRUE)}
        ELSE IF processed[1] \notin m.wv THEN {SynResult("returned", {}, TRUE)}
        ELSE {SynResult("returned", S, FALSE) :
                S \in most_similar(m.wv, processed[1], topn)}

\* the search set without the query's own lemma
search_terms_SynonymsOnly(target, synonyms) == synonyms

\* line 160: set([target_word] + synonyms)
search_terms(target, synonyms) == {target} \cup synonyms

LineTokens(raw) ==
    LET toks == preprocess_text(Flatten(raw)) IN {toks[k] : k \in DOMAIN toks}

\* the cap test that lets one more line through
CapReached_OffByOne(match_count) == match_count > display_cap

\* line 189
CapReached(match_count) == match_count >= display_cap

\* lines 174-191: the scan from line index idx (1-based) on; reading fails
\* when failAt lines have been read (failAt = -1: never)
RECURSIVE Scan(_, _, _, _, _, _)
Scan(terms, lines, idx, match_count, reported, failAt) ==
    IF failAt = idx - 1
    THEN [reported |-> reported, read |-> idx - 1, raised |-> TRUE]
    ELSE IF idx > Len(lines)
    THEN [reported |-> reported, read |-> Len(lines), raised |-> FALSE]
    ELSE IF terms \cap LineTokens(lines[idx]) /= {}
    THEN IF CapReached(match_count + 1)
         THEN [reported |-> Append(reported, idx - 1), read |-> idx,
               raised |-> FALSE]
         ELSE Scan(terms, lines, idx + 1, match_count + 1,
                   Append(reported, idx - 1), failAt)
    ELSE Scan(terms, lines, idx + 1, match_count, reported, failAt)

\* the two kinds of corpus line: a plain line, and a record with a category,
\* a title, a body and one more column
LineA == << <<"futbolu", "mjach", "golov">> >>

LineB == << <<"ekonomika">>, <<"eti", "ok">>, <<"deneg", "rublej", "bank">>,
            <<"segodnja">> >>

Rep(x, n) == [k \in 1..n |-> x]

\* corpora of up to MaxCorpus lines: a run of one kind, a run of the other,
\* a run of the first
Corpora ==
    {Rep(k[1], r[1]) \o Rep(k[2], r[2]) \o Rep(k[1], r[3]) :
       k \in {<<LineA, LineB>>, <<LineB, LineA>>},
       r \in {x \in (0..MaxCorpus) \X (0..MaxCorpus) \X (0..MaxCorpus) :
                x[1] + x[2] + x[3] <= MaxCorpus}}

Queries == {<<"futbolu">>, <<"eti">>, <<"ekonomika">>}

InitTask2 ==
    /\ prog = "task2"
    /\ pc = "ready" /\ lineNo = 0 /\ entries = <<>> /\ count = 0 /\ skipped = 0
    /\ last = NoLine /\ outcome = "running"
    /\ corpus \in Corpora /\ model = NoModel /\ sentences = <<>> /\ res = NoRes
    /\ DateIdle

\* grep_tool.train_model()
TrainModel ==
    /\ prog = "task2" /\ pc = "ready"
    /\ \E tr \in TrainOutcomes(sentences, corpus) :
         /\ sentences' = tr.sentences
         /\ model' = tr.model
         /\ res' = [NoRes EXCEPT !.op = "train", !.modelBefore = model.trained,
                                 !.phase = "train", !.ioError = tr.ioError,
                                 !.outcome = IF tr.outcome = "ok" THEN "returned"
                                             ELSE tr.outcome]
         /\ pc' = IF tr.outcome = "exit" THEN "exited" ELSE "called"
    /\ UNCHANGED <<prog, corpus, lineNo, entries, count, skipped, last, outcome>>
    /\ UNCHANGED dateVars

\* grep_tool.get_synonyms(word)
GetSynonyms ==
    /\ prog = "task2" /\ pc = "ready"
    /\ \E word \in Queries : \E r \in get_synonyms(model, word, topn_default) :
         res' = [NoRes EXCEPT !.op = "get_synonyms", !.query = word,
                              !.modelBefore = model.trained, !.phase = "query",
                              !.outcome = r.outcome, !.warned = r.warned,
                              !.value = r.value]
    /\ pc' = "called"
    /\ UNCHANGED <<prog, corpus, model, sentences>>
    /\ UNCHANGED <<lineNo, entries, count, skipped, last, outcome, dateVars>>

\* grep_tool.grep(query_word), lines 143-191
Grep ==
    /\ prog = "task2" /\ pc = "ready"
    /\ \E query \in Queries :
       \E tr \in (IF model.trained
                  THEN {[outcome |-> "ok", ioError |-> FALSE,
                         sentences |-> sentences, model |-> model]}
                  ELSE TrainOutcomes(sentences, corpus)) :
         LET called == [NoRes EXCEPT !.op = "grep", !.query = query,
                                     !.modelBefore = model.trained]
             processed_query == preprocess_text(query)
         IN  /\ sentences' = tr.sentences
             /\ model' = tr.model
             /\ IF tr.outcome /= "ok"
                THEN /\ res' = [called EXCEPT !.phase = "train",
                                              !.outcome = tr.outcome,
                                              !.ioError = tr.ioError]
                     /\ pc' = IF tr.outcome = "exit" THEN "exited" ELSE "called"
                ELSE IF processed_query = <<>>
                THEN /\ res' = [called EXCEPT !.phase = "query",
                                              !.outcome = "returned",
                                              !.warned = TRUE]
                     /\ pc' = "called"
                ELSE \E syn \in get_synonyms(tr.model, query, topn_grep) :
                     \E failAt \in -1..Len(corpus) :
                       LET terms == search_terms(processed_query[1], syn.value)
                           sc == Scan(terms, corpus, 1, 0, <<>>, failAt)
                       IN  /\ res' = [called EXCEPT
                                        !.phase = "scan",
                                        !.outcome = IF sc.raised THEN "raised"
                                                    ELSE "returned",
                                        !.ioError = sc.raised,
                                        !.warned = syn.warned,
                                        !.value = syn.value,
                                        !.terms = terms,
                                        !.reported = sc.reported,
                                        !.read = sc.read]
                           /\ pc' = "called"
    /\ UNCHANGED <<prog, corpus, lineNo, entries, count, skipped, last, outcome>>
    /\ UNCHANGED dateVars

\* the caller goes on to its next call
NextCall ==
    /\ prog = "task2" /\ pc = "called"
    /\ pc' = "ready" /\ res' = NoRes
    /\ UNCHANGED <<prog, corpus, model, sentences>>
    /\ UNCHANGED <<lineNo, entries, count, skipped, last, outcome, dateVars>>

NextTask2 == TrainModel \/ GetSynonyms \/ Grep \/ NextCall

SpecTask2 == InitTask2 /\ [][NextTask2]_vars

\* either script
InitScripts == InitTask1 \/ InitTask2

NextScripts == NextTask1 \/ NextTask2

SpecScripts == InitScripts /\ [][NextScripts]_vars

-----------------------------------------------------------------------------
(* The DATE sub-grammar on its own: a token sequence is offered whole *)

DateWords ==
    {"0", "1", "31", "32", "999", "1000", "2100", "2101",
     "marta", "goda", "segodnja"}

DateInputs == UNION {[1..n -> DateWords] : n \in 0..MaxDateLen}

InitDate ==
    /\ prog = "date"
    /\ pc = "done" /\ lineNo = 0 /\ entries = <<>> /\ count = 0 /\ skipped = 0
    /\ last = NoLine /\ outcome = "running"
    /\ Task2Idle
    /\ dateTokens \in DateInputs /\ dateResult = "none"

\* lines 43-48: DATE applied to the whole sequence
ParseDate ==
    /\ prog = "date" /\ dateResult = "none"
    /\ dateResult' = IF DATE(dateTokens, 1, Len(dateTokens)) THEN "match"
                     ELSE "nomatch"
    /\ UNCHANGED <<prog, dateTokens, task1Vars, task2Vars>>

NextDate == ParseDate

SpecDate == InitDate /\ [][NextDate]_vars

-----------------------------------------------------------------------------
(* Claims about task-1 *)

HasStem(text) == \E kw \in KEYWORDS : Contains(LowerText(text), kw)

\* C1: a line whose lowercased selected text contains neither keyword stem
\* is not given to the parser and adds nothing to the result list, whatever
\* was read before it.
C1_NoStemNotParsed ==
    [][(lineNo' = lineNo + 1 /\ ~HasStem(last'.text))
         => (~last'.parsed /\ last'.matches = {} /\ entries' = entries
             /\ count' = count)]_vars

\* C1 witness: after a line that produced a fact, a line without a stem that
\* the grammar would match was read and skipped.
C1_Witness ==
    /\ lineNo = 2 /\ Len(entries) = 1 /\ skipped = 1
    /\ last.handled /\ ~last.empty /\ ~last.parsed
    /\ ~HasStem(last.text) /\ BIRTH_RULE(last.text) /= {}

\* C2 as stated: every line handled by the scan that contains a keyword stem
\* (anywhere in the line) was given to the parser.
C2_AnyStemLineParsed == (last.handled /\ last.stemInLine) => last.parsed

\* C2 amended: every line handled by the scan whose selected text, lowercased,
\* contains a keyword stem was given to the parser, matched or not.
C2_StemInSelectedTextParsed ==
    (last.handled /\ HasStem(last.text)) => last.parsed

\* C2 witness: a line with a stem was parsed and no pattern matched it.
C2_Witness ==
    /\ last.handled /\ HasStem(last.text) /\ last.parsed
    /\ last.matches = {} /\ BIRTH_RULE(last.text) = {}

PatternsAt(t, m) ==
    {x.pattern : x \in {y \in BIRTH_RULE(t) : y.start = m.start /\ y.stop = m.stop}}

\* the tokens of a match, slot by slot, make up its span in the pattern's order
ShapeOf(t, m) ==
    LET span == SubSeq(t, m.start, m.stop)
    IN  CASE m.pattern = "A" ->
               /\ m.birth_date /= None
               /\ \E v \in {w \in DOMAIN t : BIRTH_VERB(t[w])} :
                  \E p \in {w \in DOMAIN t : IN_(t[w])} :
                    span = m.name \o <<t[v]>> \o m.birth_date \o <<t[p]>>
                           \o m.birth_place
          [] m.pattern = "B" ->
               /\ m.birth_date = None
               /\ \E v \in {w \in DOMAIN t : BIRTH_VERB(t[w])} :
                  \E p \in {w \in DOMAIN t : IN_(t[w])} :
                    span = m.name \o <<t[v]>> \o <<t[p]>> \o m.birth_place
          [] m.pattern = "C" ->
               /\ m.birth_date = None
               /\ \E v \in {w \in DOMAIN t : BIRTH_VERB(t[w])} :
                    span = <<t[v]>> \o m.birth_place \o m.name

C9_NameNonEmpty ==
    \A k \in DOMAIN entries :
        entries[k].name /= None /\ Len(entries[k].name) >= 1

\* C9 witness: the result list holds an entry with a name and a date and the
\* scan is over.
C9_Witness ==
    /\ pc = "done" /\ entries /= <<>>
    /\ entries[1].name /= None /\ entries[1].birth_date /= None

-----------------------------------------------------------------------------
(* Claims about DATE *)

DayValue(w) == IsInt(w) /\ IntValue[w] \in 1..31

YearValue(w) == IsInt(w) /\ IntValue[w] \in 1000..2100

\* the four surface forms of a date
FourForms(t) ==
    \/ Len(t) = 4 /\ DayValue(t[1]) /\ MONTH_NAME(t[2]) /\ YearValue(t[3])
                  /\ YEAR_WORD(t[4])
    \/ Len(t) = 3 /\ DayValue(t[1]) /\ MONTH_NAME(t[2]) /\ YearValue(t[3])
    \/ Len(t) = 2 /\ DayValue(t[1]) /\ MONTH_NAME(t[2])
    \/ Len(t) = 2 /\ YearValue(t[1]) /\ YEAR_WORD(t[2])

\* C8: DATE accepts a sequence exactly when it has one of the four forms,
\* and accepts no sequence that starts with the day value 32.
C8_DateFourForms ==
    dateResult /= "none" =>
        /\ (dateResult = "match") <=> FourForms(dateTokens)
        /\ (dateTokens /= <<>> /\ dateTokens[1] = "32") => dateResult = "nomatch"

\* C8 witness: a day, month, year, year-word sequence was accepted.
C8_Witness ==
    /\ dateResult = "match" /\ Len(dateTokens) = 4 /\ dateTokens[1] = "31"

-----------------------------------------------------------------------------
(* Claims about task-2 *)

Matching(i) == res.terms \cap LineTokens(corpus[i]) /= {}

MatchIdx == {i \in 1..Len(corpus) : Matching(i)}

Reported(i) == \E k \in DOMAIN res.reported : res.reported[k] = i - 1

\* every token of the query is a stop word or shorter than three letters
Filtered(q) ==
    \A k \in DOMAIN q : Lower(q[k]) \in stop_words \/ WordLen(Lower(q[k])) < 3

\* C3: a line grep scanned is reported exactly when its lemmatized tokens
\* meet the search set; with more than display_cap matching lines in the
\* corpus exactly the first display_cap of them are reported, in file order,
\* and the last line read is the last one reported.
C3_ReportedIffMatchCapped ==
    (res.op = "grep" /\ res.phase = "scan") =>
        /\ \A i \in 1..res.read : Reported(i) <=> Matching(i)
        /\ \A k \in DOMAIN res.reported :
             /\ res.reported[k] + 1 \in 1..res.read
             /\ Cardinality({i \in MatchIdx : i <= res.reported[k] + 1}) = k
        /\ (res.outcome = "returned" /\ Cardinality(MatchIdx) > display_cap) =>
             /\ Len(res.reported) = display_cap
             /\ res.read = res.reported[display_cap] + 1
        /\ (res.outcome = "returned" /\ Cardinality(MatchIdx) < display_cap) =>
             /\ Len(res.reported) = Cardinality(MatchIdx)
             /\ res.read = Len(corpus)

\* C3 witness: more than display_cap lines match, a line that does not match
\* was scanned among them, and the scan stopped before the end of the file.
C3_Witness ==
    /\ res.op = "grep" /\ res.outcome = "returned" /\ res.phase = "scan"
    /\ Cardinality(MatchIdx) > display_cap
    /\ Len(res.reported) = display_cap
    /\ res.read > display_cap /\ res.read < Len(corpus)

\* C4 as stated: in both tools an exception raised during a corpus scan is
\* caught and the call returns what it had collected.
C4_ExceptionCaughtEverywhere ==
    /\ (prog = "task1" /\ outcome = "caught") => pc = "done"
    /\ (prog = "task2" /\ res.ioError) => res.outcome = "returned"

\* C4 amended: in the extractor an exception raised during the scan is caught
\* and the entries collected so far are returned; in the search tool an
\* exception in the training pass ends in sys.exit(1) and an exception in
\* grep's scan leaves grep uncaught.
C4_ExceptionHandling ==
    [][/\ (prog = "task1" /\ outcome = "running" /\ outcome' = "caught") =>
            /\ pc' = "done"
            /\ Len(entries') =
                 Len(entries) + (IF lineNo' = lineNo THEN 0 ELSE last'.emitted)
            /\ SubSeq(entries', 1, Len(entries)) = entries
       /\ outcome' \in {"running", "returned", "notfound", "caught"}
       /\ (res'.ioError /\ res'.phase = "train") =>
            res'.outcome = "exit" /\ pc' = "exited" /\ ~model'.trained
       /\ (res'.ioError /\ res'.phase = "scan") => res'.outcome = "raised"
      ]_vars

\* C4 witness: the parser raised on a later line and the extractor ended
\* with the entry collected before it.
C4_Witness ==
    /\ prog = "task1" /\ pc = "done" /\ outcome = "caught"
    /\ Len(entries) >= 1 /\ last.parsed /\ ~last.handled

\* C5 as stated: a query that the stop-word and length rules filter out
\* entirely ends in an empty result with a warning, whatever the state of
\* the object, through get_synonyms and through grep.
C5_FilteredQueryNeverRaises ==
    (res.op \in {"get_synonyms", "grep"} /\ Filtered(res.query)
       /\ res.phase /= "train")
    => (res.outcome = "returned" /\ res.value = {} /\ res.warned)

\* C5 amended: with a trained model such a query returns empty with a
\* warning through get_synonyms; get_synonyms on an untrained model raises;
\* grep, once its training (if any) has completed, returns before scanning,
\* with a warning.
C5_FilteredQueryTrained ==
    /\ (res.op = "get_synonyms" /\ Filtered(res.query) /\ res.modelBefore) =>
         (res.outcome = "returned" /\ res.value = {} /\ res.warned)
    /\ (res.op = "get_synonyms" /\ ~res.modelBefore) => res.outcome = "raised"
    /\ (res.op = "grep" /\ Filtered(res.query) /\ res.phase /= "train") =>
         /\ res.outcome = "returned" /\ res.phase = "query" /\ res.warned
         /\ res.value = {} /\ res.terms = {} /\ res.reported = <<>>
         /\ res.read = 0 /\ model.trained

\* C5 witness: get_synonyms on a trained model with the stop word as query.
C5_Witness ==
    /\ res.op = "get_synonyms" /\ res.modelBefore /\ model.wv /= {}
    /\ Filtered(res.query) /\ res.warned /\ res.outcome = "returned"

TargetOf(q) == preprocess_text(q)[1]

TopN(value, target, n) ==
    /\ value \subseteq model.wv \ {target}
    /\ Cardinality(value) = Min(n, Cardinality(model.wv) - 1)

\* C6 as stated: grep's expansion of a query in the vocabulary is the top-N
\* nearest tokens plus the query's lemma; a search for a query outside the
\* (non-empty) vocabulary reports no line.
C6_ExpansionAsStated ==
    (res.op = "grep" /\ res.phase = "scan" /\ res.outcome = "returned"
       /\ model.wv /= {}) =>
        IF TargetOf(res.query) \in model.wv
        THEN /\ TopN(res.value, TargetOf(res.query), topn_grep)
             /\ res.terms = res.value \cup {TargetOf(res.query)}
        ELSE res.reported = <<>>

\* C6 amended: for a query in the vocabulary get_synonyms returns the top-N
\* nearest tokens and grep searches for them plus the query's lemma; for a
\* query outside the vocabulary get_synonyms returns nothing, with a
\* warning, and grep searches for the query's lemma alone, reporting the
\* lines that contain it.
C6_ExpansionAmended ==
    /\ (res.op = "get_synonyms" /\ res.outcome = "returned"
          /\ ~Filtered(res.query)) =>
         IF TargetOf(res.query) \in model.wv
         THEN TopN(res.value, TargetOf(res.query), topn_default) /\ ~res.warned
         ELSE res.value = {} /\ res.warned
    /\ (res.op = "grep" /\ res.phase = "scan") =>
         IF TargetOf(res.query) \in model.wv
         THEN /\ TopN(res.value, TargetOf(res.query), topn_grep)
              /\ res.terms = res.value \cup {TargetOf(res.query)}
         ELSE /\ res.value = {} /\ res.warned
              /\ res.terms = {TargetOf(res.query)}
              /\ \A i \in 1..res.read :
                   Reported(i) <=> TargetOf(res.query) \in LineTokens(corpus[i])

\* C6 witness: grep for a word outside the vocabulary reported lines.
C6_Witness ==
    /\ res.op = "grep" /\ res.phase = "scan" /\ res.outcome = "returned"
    /\ TargetOf(res.query) \notin model.wv /\ model.wv /= {}
    /\ res.reported /= <<>>

\* the text the extractor selects from a line as read
TrainTextLikeExtractor(raw) == SelectTextFast(Strip(raw))

\* C10 as stated: the training pass of the search tool processes, from each
\* line, the text the extractor selects from it.
C10_SameTextField ==
    (res.op = "train" /\ res.outcome = "returned" /\ model.wv /= {}) =>
        sentences =
          SelectSeq([k \in DOMAIN corpus |->
                       preprocess_text(TrainTextLikeExtractor(corpus[k]))],
                    NonEmpty)

=============================================================================
